---- MODULE Spec2Model ----
(***************************************************************************)
(* State-machine model of user_sync/connector/directory_ldap.py:           *)
(* LDAPDirectoryConnector (load_users_and_groups, find_ldap_group_dn,      *)
(* iter_users, iter_search_result) and LDAPValueFormatter, and of          *)
(* ClasslinkConnector.make_call of user_sync/connector/oneroster.py.       *)
(*                                                                         *)
(* Conventions.  A Python value that may be None is a sequence of length   *)
(* 0 (None) or 1 (the value).  A unicode string is a sequence of one-      *)
(* character strings; a byte string is a sequence of bytes, where an ASCII *)
(* byte is written as its character and "xFF" is the byte 0xFF.            *)
(***************************************************************************)
EXTENDS Integers, Sequences, FiniteSets, TLC

\* ------------------------------------------------------------------ bounds
\* Entries the directory backend delivers over the lifetime of a connector.
MaxEntries == 2
\* Pages of one search: the response to request MaxPages has no non-empty cookie.
MaxPages == 2
\* The page sizes a ClasslinkConnector is constructed with: 1..MaxPageSize.
MaxPageSize == 2
\* Entries the roster backend holds for one url: 0..MaxRosterEntries.
MaxRosterEntries == 4

\* ----------------------------------------------------------- Python values
None == <<>>
Some(x) == <<x>>
\* Python truthiness of an optional string: neither None nor ''.
Truthy(o) == o /= None /\ o[1] /= <<>>

\* F applied to the value of v, with v evaluated once.
Eval(v, F(_)) == CHOOSE r \in {F(x) : x \in {v}} : TRUE

Whitespace == {" "}

RECURSIVE LStrip(_)
LStrip(s) == IF s /= <<>> /\ Head(s) \in Whitespace THEN LStrip(Tail(s)) ELSE s

RECURSIVE RStrip(_)
RStrip(s) ==
    IF s /= <<>> /\ s[Len(s)] \in Whitespace THEN RStrip(SubSeq(s, 1, Len(s) - 1)) ELSE s

\* str.strip()
Strip(s) == RStrip(LStrip(s))

\* `x.strip() if x else None'
StripOrNone(o) == IF Truthy(o) THEN Some(Strip(o[1])) ELSE None

\* ---------------------------------------------------------------- decoding
Encodings == {"utf-8", "latin-1"}
HighByte == "xFF"

\* The character a byte decodes to; 0xFF is y-diaeresis in latin-1 and no valid
\* sequence in utf-8.
DecodeByte(b) == IF b = HighByte THEN "y:" ELSE b

\* bytes.decode(encoding): [err, val]; err is the UnicodeError.
Decode(bytes, enc) ==
    IF enc = "utf-8" /\ \E i \in 1..Len(bytes) : bytes[i] = HighByte
    THEN [err |-> TRUE, val |-> None]
    ELSE [err |-> FALSE, val |-> Some([i \in 1..Len(bytes) |-> DecodeByte(bytes[i])])]

\* Mutant of get_attribute_value: a value that cannot be decoded counts as missing.
get_attribute_value_lenient(attributes, attribute_name, enc) ==
    IF attribute_name \in DOMAIN attributes /\ Len(attributes[attribute_name]) > 0
       /\ ~Decode(attributes[attribute_name][1], enc).err
    THEN Decode(attributes[attribute_name][1], enc)
    ELSE [err |-> FALSE, val |-> None]

\* LDAPValueFormatter.get_attribute_value(attributes, attribute_name) under the
\* class attribute `encoding': the decoded first value, None when the attribute
\* is missing or its value list is empty; err when decoding raises.
get_attribute_value(attributes, attribute_name, enc) ==
    IF attribute_name \in DOMAIN attributes /\ Len(attributes[attribute_name]) > 0
    THEN Decode(attributes[attribute_name][1], enc)
    ELSE [err |-> FALSE, val |-> None]

\* ------------------------------------------------------ LDAPValueFormatter
\* A format string is kept as string.Formatter().parse() returns it: a sequence
\* of items [lit |-> literal text, field |-> None or Some(field name)].
Lit(s) == [lit |-> s, field |-> None]
Field(n) == [lit |-> <<>>, field |-> Some(n)]

\* LDAPValueFormatter.__init__: [string_format, attribute_names]
LDAPValueFormatter(string_format) ==
    [string_format |-> string_format,
     attribute_names |->
        IF string_format = None THEN <<>>
        ELSE LET items == string_format[1]
                 F[i \in 0..Len(items)] ==
                    IF i = 0 THEN <<>>
                    ELSE IF items[i].field /= None /\ items[i].field[1] /= ""
                         THEN Append(F[i - 1], items[i].field[1])
                         ELSE F[i - 1]
             IN F[Len(items)]]

get_attribute_names(formatter) == formatter.attribute_names

\* string_format.format(**values)
RECURSIVE Format(_, _)
Format(items, values) ==
    IF items = <<>> THEN <<>>
    ELSE LET it == Head(items)
         IN it.lit \o (IF it.field = None THEN <<>> ELSE values[it.field[1]])
                   \o Format(Tail(items), values)

\* The loop of generate_value over attribute_names[i..]: [err, missing, name, values]
RECURSIVE CollectValues(_, _, _, _, _)
CollectValues(names, i, record, enc, values) ==
    IF i > Len(names)
    THEN [err |-> FALSE, missing |-> FALSE,
          name |-> IF Len(names) = 0 THEN None ELSE Some(names[Len(names)]),
          values |-> values]
    ELSE LET v == get_attribute_value(record, names[i], enc)
         IN IF v.err
            THEN [err |-> TRUE, missing |-> FALSE, name |-> Some(names[i]), values |-> values]
            ELSE IF v.val = None
            THEN [err |-> FALSE, missing |-> TRUE, name |-> Some(names[i]), values |-> values]
            ELSE CollectValues(names, i + 1, record, enc,
                               [n \in (DOMAIN values) \cup {names[i]} |->
                                   IF n = names[i] THEN v.val[1] ELSE values[n]])

\* Mutant of generate_value: the name returned is always the last placeholder.
generate_value_last(formatter, record, enc) ==
    IF formatter.string_format = None
    THEN [err |-> FALSE, result |-> None, attribute_name |-> None]
    ELSE LET c == CollectValues(formatter.attribute_names, 1, record, enc, <<>>)
             names == formatter.attribute_names
         IN [err |-> c.err,
             result |-> IF c.err \/ c.missing THEN None
                        ELSE Some(Format(formatter.string_format[1], c.values)),
             attribute_name |-> IF names = <<>> THEN None ELSE Some(names[Len(names)])]

\* LDAPValueFormatter.generate_value(record): [err, result, attribute_name]
generate_value(formatter, record, enc) ==
    IF formatter.string_format = None
    THEN [err |-> FALSE, result |-> None, attribute_name |-> None]
    ELSE LET c == CollectValues(formatter.attribute_names, 1, record, enc, <<>>)
         IN [err |-> c.err,
             result |-> IF c.err \/ c.missing THEN None
                        ELSE Some(Format(formatter.string_format[1], c.values)),
             attribute_name |-> c.name]


\* ------------------------------------------------------------ identity type
AdobeID == <<"a", "d", "o", "b", "e", "I", "D">>
EnterpriseID == <<"e", "n", "t", "e", "r", "p", "r", "i", "s", "e", "I", "D">>
FederatedID == <<"f", "e", "d", "e", "r", "a", "t", "e", "d", "I", "D">>
IdentityTypes == {AdobeID, EnterpriseID, FederatedID}

\* user_sync.identity_type.parse_identity_type(value) for a string value:
\* [err, val]; err is the AssertionException for a value outside the enumeration.
parse_identity_type(value) ==
    IF value \in IdentityTypes THEN [err |-> FALSE, val |-> Some(value)]
    ELSE [err |-> TRUE, val |-> None]

\* user_sync.connector.helper.create_blank_user()
create_blank_user ==
    [identity_type |-> None, username |-> None, domain |-> None, firstname |-> None,
     lastname |-> None, email |-> None, groups |-> <<>>, country |-> None,
     uid |-> None, source_attributes |-> <<>>]

\* ------------------------------------------------------------------ options
\* The options of LDAPDirectoryConnector.__init__ that the modelled code reads.
DefaultOptions ==
    [string_encoding |-> "utf-8",
     user_identity_type |-> Some(FederatedID),
     user_identity_type_format |-> None,
     user_email_format |-> Some(<<Field("mail")>>),
     user_username_format |-> None,
     user_domain_format |-> None]

MappedOptions ==
    [DefaultOptions EXCEPT !.user_identity_type_format = Some(<<Field("idtype")>>),
                           !.user_username_format = Some(<<Field("uname")>>)]

Configs == {DefaultOptions, MappedOptions}

\* -------------------------------------------------------- directory backend
DNs == {"dn1", "dn2"}
GroupNames == {"g1", "g2"}
\* The arguments of load_users_and_groups the model draws from.
RequestedGroups == {<<>>, <<"g1">>, <<"g1", "g1">>, <<"g1", "g2">>}
RequestedExtendedAttributes == {{"title", "sn"}}

\* Raw attribute records the backend returns (attribute name -> list of byte strings).
RawOkFull ==
    [n \in {"mail", "idtype", "uname", "givenName"} |->
        CASE n = "mail" -> << <<" ", "a", " ">> >>
          [] n = "idtype" -> << EnterpriseID >>
          [] n = "uname" -> << <<" ", "u">>, <<"b">> >>
          [] n = "givenName" -> << <<"a">> >>]
RawOkMin == [n \in {"mail", "uname"} |-> IF n = "mail" THEN << <<"b">> >> ELSE << <<" ">> >>]
RawNoMail == [n \in {"sn"} |-> << <<"b">> >>]
RawBlankMail == [n \in {"mail"} |-> << <<" ">> >>]
RawBadIdentity == [n \in {"mail", "idtype"} |-> IF n = "mail" THEN << <<"a">> >> ELSE << <<"b">> >>]
RawBadBytes == [n \in {"mail", "title"} |-> IF n = "mail" THEN << <<"a">> >> ELSE << <<HighByte>> >>]
RawBadUname == [n \in {"mail", "uname"} |-> IF n = "mail" THEN << <<"b">> >> ELSE << <<HighByte>> >>]

RawRecords ==
    {RawOkFull, RawOkMin, RawNoMail, RawBlankMail, RawBadIdentity, RawBadBytes, RawBadUname}

\* The records the directory may hold for a dn, at one time or another.
RecordsOf(dn) ==
    IF dn = "dn1" THEN {RawOkFull, RawBadUname, RawBadBytes}
    ELSE {RawOkMin, RawNoMail, RawBlankMail, RawBadIdentity}

\* A search result item (dn, record); dn None is a referral.
Entries == {<<None, <<>> >>} \cup {<<Some(d), r>> : d \in DNs, r \in RawRecords}

\* The items a search may return.
SearchEntries == {e \in Entries : e[1] = None \/ e[2] \in RecordsOf(e[1][1])}

\* The pages a response may carry when the backend may still deliver n entries.
Pages(n) == UNION {[1..k -> SearchEntries] : k \in 0..n}

\* What search_s may return for the group filter of `group': a list of
\* (dn, attrs) tuples, referrals having dn None.
GroupDn(g, k) == <<g, k>>
GroupSearchResults(g) ==
    { <<>>,
      << None >>,
      << Some(GroupDn(g, 1)) >>,
      << None, Some(GroupDn(g, 1)) >>,
      << Some(GroupDn(g, 1)), Some(GroupDn(g, 2)) >>,
      << Some(GroupDn(g, 1)), None, Some(GroupDn(g, 2)) >> }

\* LDAPDirectoryConnector.find_ldap_group_dn, given the result of search_s:
\* [err, group_dn]; err is "Multiple LDAP groups found".
RECURSIVE FindGroupLoop(_, _, _)
FindGroupLoop(res, i, group_dn) ==
    IF i > Len(res) THEN [err |-> FALSE, group_dn |-> group_dn]
    ELSE IF res[i] /= None
         THEN IF group_dn /= None THEN [err |-> TRUE, group_dn |-> group_dn]
              ELSE FindGroupLoop(res, i + 1, res[i])
         ELSE FindGroupLoop(res, i + 1, group_dn)

\* Mutant of find_ldap_group_dn: a group that is not found is an error.
find_ldap_group_dn_required(r) ==
    IF FindGroupLoop(r, 1, None).group_dn = None THEN [err |-> TRUE, group_dn |-> None]
    ELSE FindGroupLoop(r, 1, None)

\* Mutant of find_ldap_group_dn: with several matches the first one is taken.
find_ldap_group_dn_first(r) ==
    [err |-> FALSE,
     group_dn |-> IF \E i \in 1..Len(r) : r[i] /= None
                  THEN r[CHOOSE i \in 1..Len(r) :
                            r[i] /= None /\ \A j \in 1..(i - 1) : r[j] = None]
                  ELSE None]

find_ldap_group_dn(r) == FindGroupLoop(r, 1, None)

\* ------------------------------------------------- iter_users: one new entry
\* The attributes copied into source_attributes by name (lines 251-272).
BuiltinAttributes == {"givenName", "sn", "c", "uid"}

\* Lines 194: the extended attributes not already requested.
ExtendedNames(opts, extended_attributes) ==
    LET Names(f) == {get_attribute_names(LDAPValueFormatter(f))[i] :
                        i \in 1..Len(get_attribute_names(LDAPValueFormatter(f)))}
    IN extended_attributes \ ({"givenName", "sn", "c"}
                              \cup Names(opts.user_identity_type_format)
                              \cup Names(opts.user_email_format)
                              \cup Names(opts.user_username_format)
                              \cup Names(opts.user_domain_format))

Warning(kind, subject) == <<kind, subject>>

EncodingError == "Encoding error in value of attribute"
IdentityTypeError == "Unrecognized identity type"
MultipleGroupsError == "Multiple LDAP groups found"

Skipped(log) == [status |-> "skip", user |-> create_blank_user, log |-> log, error |-> ""]
Raised(log) ==
    [status |-> "raise", user |-> create_blank_user, log |-> log, error |-> EncodingError]
Built(user, log) == [status |-> "ok", user |-> user, log |-> log, error |-> ""]

\* Lines 243-279: domain, the scalar attributes, the extended attributes, and
\* the completed record.
BuildTail(dn, record, opts, enc, extended, user, source, log) ==
    Eval(generate_value(LDAPValueFormatter(opts.user_domain_format), record, enc), LAMBDA d :
    LET domain == StripOrNone(d.result)
        log1 == IF ~Truthy(domain) /\ d.attribute_name /= None
                THEN Append(log, Warning("No domain attribute", dn)) ELSE log
        names == BuiltinAttributes \cup extended
        val(n) == get_attribute_value(record, n, enc)
    IN IF d.err THEN Raised(log)
       ELSE IF \E n \in names : val(n).err THEN Raised(log1)
       ELSE Built([user EXCEPT
                      !.domain = IF Truthy(domain) THEN domain ELSE @,
                      !.firstname = val("givenName").val,
                      !.lastname = val("sn").val,
                      !.country = val("c").val,
                      !.uid = val("uid").val,
                      !.source_attributes =
                          [n \in {"email", "identity_type", "username", "domain"} \cup names |->
                              CASE n = "domain" -> domain
                                [] n \in {"email", "identity_type", "username"} -> source[n]
                                [] OTHER -> val(n).val]],
                  log1))

\* Mutant of DefaultedUsername: no default.
DefaultedUsernameNone(username, email) == username

\* Lines 235-241: user['username'], the email when the username is None or ''.
DefaultedUsername(username, email) == IF Truthy(username) THEN username ELSE email

\* Mutant of DefaultIdentityType: no default.
DefaultIdentityTypeNone(opts) == None

\* Lines 96 and 224: self.user_identity_type, the parsed option.
DefaultIdentityType(opts) == opts.user_identity_type

\* Lines 232-241: the username, defaulting to the email.
BuildUsername(dn, record, opts, enc, extended, user, source, log) ==
    Eval(generate_value(LDAPValueFormatter(opts.user_username_format), record, enc), LAMBDA u :
    LET username == StripOrNone(u.result)
        log1 == IF ~Truthy(username) /\ u.attribute_name /= None
                THEN Append(log, Warning("No username attribute", dn)) ELSE log
    IN IF u.err THEN Raised(log)
       ELSE BuildTail(dn, record, opts, enc, extended,
                      [user EXCEPT !.username = DefaultedUsername(username, user.email)],
                      [n \in DOMAIN source \cup {"username"} |->
                          IF n = "username" THEN username ELSE source[n]],
                      log1))

\* Mutant of TryParseIdentityType: an invalid value falls back to a default.
TryParseIdentityTypeDefault(value) ==
    IF parse_identity_type(value).err THEN [status |-> "ok", val |-> Some(FederatedID)]
    ELSE [status |-> "ok", val |-> parse_identity_type(value).val]

\* Mutant of TryParseIdentityType: the AssertionException is not caught.
TryParseIdentityTypeUncaught(value) ==
    IF parse_identity_type(value).err THEN [status |-> "raise", val |-> None]
    ELSE [status |-> "ok", val |-> parse_identity_type(value).val]

\* Lines 226-230, try/except around parse_identity_type: "ok" with the parsed
\* value, "skip" when the AssertionException is caught (warn and continue);
\* "raise" would be an exception the except clause does not catch.
TryParseIdentityType(value) ==
    LET parsed == parse_identity_type(value)
    IN IF parsed.err THEN [status |-> "skip", val |-> None]
       ELSE [status |-> "ok", val |-> parsed.val]

\* Lines 218-230: the identity type: the default when the format gives no value,
\* the entry skipped when the value is outside the enumeration.
BuildIdentityType(dn, record, opts, enc, extended, user, source, log) ==
    Eval(generate_value(LDAPValueFormatter(opts.user_identity_type_format), record, enc), LAMBDA t :
    LET identity_type == t.result
        log1 == IF t.attribute_name /= None /\ ~Truthy(identity_type)
                THEN Append(log, Warning("No identity_type attribute", dn)) ELSE log
        source1 == [n \in DOMAIN source \cup {"identity_type"} |->
                       IF n = "identity_type" THEN identity_type ELSE source[n]]
    IN IF t.err THEN Raised(log)
       ELSE IF ~Truthy(identity_type)
       THEN BuildUsername(dn, record, opts, enc, extended,
                          [user EXCEPT !.identity_type = DefaultIdentityType(opts)],
                          source1, log1)
       ELSE Eval(TryParseIdentityType(identity_type[1]), LAMBDA parsed :
            CASE parsed.status = "skip" ->
                    Skipped(Append(log1, Warning("Skipping user: identity type", dn)))
              [] parsed.status = "raise" -> [Raised(log1) EXCEPT !.error = IdentityTypeError]
              [] OTHER ->
                    BuildUsername(dn, record, opts, enc, extended,
                                  [user EXCEPT !.identity_type = parsed.val],
                                  source1, log1)))

\* Mutant of EmailMissing: `if email is None'.
EmailMissingNoneOnly(email) == email = None

\* Line 207: `if not email', for the stripped email.
EmailMissing(email) == ~Truthy(email)

\* Lines 205-279 of iter_users for an entry whose dn is not in user_by_dn:
\* [status, user, log] with status "ok" (the record to insert and yield),
\* "skip" (continue) or "raise" (an AssertionException leaves iter_users).
BuildUser(dn, record, opts, enc, extended) ==
    Eval(generate_value(LDAPValueFormatter(opts.user_email_format), record, enc), LAMBDA e :
    LET email == StripOrNone(e.result)
    IN IF e.err THEN Raised(<<>>)
       ELSE IF EmailMissing(email)
       THEN Skipped(IF e.attribute_name /= None
                    THEN <<Warning("Skipping user: empty email", dn)>> ELSE <<>>)
       ELSE BuildIdentityType(dn, record, opts, enc, extended,
                              [create_blank_user EXCEPT !.email = email],
                              [n \in {"email"} |-> email], <<>>))

\* -------------------------------------------------------------------- state
VARIABLES
    options,              \* self.options
    encoding,             \* LDAPValueFormatter.encoding (a class attribute)
    user_by_dn,           \* self.user_by_dn: dn -> reference into heap
    heap,                 \* the user dicts ever inserted, by reference
    pc,                   \* position of load_users_and_groups
    groups,               \* the loop of line 132: the requested groups not yet taken
    group,                \* its loop variable, None outside the loop body
    all_users,            \* its argument all_users
    extended_attributes,  \* its argument extended_attributes
    cpos,                 \* position of the generator iter_search_result
    msgid,                \* its local msgid
    item,                 \* iter_users: its loop variables (dn, record), None before the first
    res,                  \* find_ldap_group_dn: what search_s returned in the last step, or None
    has_next_page,        \* its local has_next_page
    cookie,               \* lc.cookie
    response_data,        \* the items of response_data not yet yielded
    inflight,             \* connection: requests issued, neither read nor abandoned
    budget,               \* entries the backend may still deliver
    result,               \* the value returned by the last call
    error,                \* the exception the last call raised, "" when none
    logged,               \* the warnings logged by the last step
    delivered,            \* this call: (query, dn, reference) yielded by iter_users
    first_call,           \* the current call is the first on this connector
    requests,             \* this cursor: search_ext calls made
    responses,            \* this cursor: result3 calls returned
    ignored,              \* this cursor: a response carried no paging control
    received,             \* this cursor: items in the responses read
    yielded,              \* this cursor: items yielded to iter_users
    formatter,            \* an LDAPValueFormatter object
    record,               \* the record of its last generate_value call
    value,                \* what that call returned or raised
    page_size,            \* ClasslinkConnector: self.page_size, '' before construction
    backend,              \* the number of entries the roster backend holds for the url
    url,                  \* make_call: its argument url
    request_type,         \* its argument request_type
    group_filter,         \* its argument group_filter
    group_name,           \* its argument group_name
    key,                  \* its local key
    response,             \* its local response, None before the first request
    user_list,            \* its local user_list, the value it returns
    fetched,              \* this call: the offsets of the urls requested, in order
    mpc,                  \* position of make_call
    merror,               \* the exception make_call raised, "" when none
    mwarned               \* make_call logged the warning of line 142

vars == <<options, encoding, user_by_dn, heap, pc, groups, group, all_users,
          extended_attributes, cpos, msgid, has_next_page, cookie, response_data,
          inflight, budget, result, error, logged, delivered, first_call, item, res,
          requests, responses, ignored, received, yielded, formatter, record, value,
          page_size, backend, url, request_type, group_filter, group_name, key,
          response, user_list, fetched, mpc, merror, mwarned>>

connector == <<options, encoding>>
cache == <<user_by_dn, heap>>
call == <<all_users, extended_attributes, first_call>>
cursor == <<cpos, msgid, has_next_page, cookie, response_data, inflight>>
history == <<requests, responses, ignored, received, yielded>>
formatting == <<formatter, record, value>>
roster == <<page_size, backend, url, request_type, group_filter, group_name, key,
            response, user_list, fetched, mpc, merror, mwarned>>

AllUsersQuery == "*"

\* LDAPDirectoryConnector.__init__ (lines 63-118), after a successful bind.
Init ==
    /\ options \in Configs
    /\ encoding = options.string_encoding
    /\ user_by_dn = <<>>
    /\ heap = <<>>
    /\ pc = "idle"
    /\ groups = <<>>
    /\ group = None
    /\ all_users = FALSE
    /\ extended_attributes = {}
    /\ cpos = "none"
    /\ msgid = None
    /\ has_next_page = FALSE
    /\ cookie = ""
    /\ response_data = <<>>
    /\ inflight = {}
    /\ budget = MaxEntries
    /\ result = <<>>
    /\ error = ""
    /\ logged = <<>>
    /\ delivered = {}
    /\ first_call = FALSE
    /\ item = None
    /\ res = None
    /\ requests = 0
    /\ responses = 0
    /\ ignored = FALSE
    /\ received = 0
    /\ yielded = 0
    /\ formatter = LDAPValueFormatter(None)
    /\ record = <<>>
    /\ value = generate_value(formatter, record, encoding)
    /\ page_size = ""
    /\ backend = 0
    /\ url = None
    /\ request_type = ""
    /\ group_filter = None
    /\ group_name = None
    /\ key = None
    /\ response = None
    /\ user_list = <<>>
    /\ fetched = <<>>
    /\ mpc = "none"
    /\ merror = ""
    /\ mwarned = FALSE

\* ------------------------------------------------------ load_users_and_groups
\* Mutant of LoadUsersAndGroups: every call starts with an empty cache.
LoadUsersAndGroupsFresh ==
    /\ pc \in {"idle", "returned", "raised"}
    /\ cpos = "none"
    /\ \E G \in RequestedGroups, ext \in RequestedExtendedAttributes, all \in BOOLEAN :
          /\ groups' = G
          /\ extended_attributes' = ext
          /\ all_users' = all
    /\ group' = None
    /\ pc' = "group_loop"
    /\ first_call' = (pc = "idle")
    /\ result' = <<>>
    /\ error' = ""
    /\ logged' = <<>>
    /\ delivered' = {}
    /\ res' = None
    /\ requests' = 0
    /\ responses' = 0
    /\ ignored' = FALSE
    /\ received' = 0
    /\ yielded' = 0
    /\ user_by_dn' = <<>>
    /\ heap' = <<>>
    /\ UNCHANGED <<connector, formatting, roster, cursor, budget, item>>

\* The call (lines 120-129): a new invocation on the connector.
LoadUsersAndGroups ==
    /\ pc \in {"idle", "returned", "raised"}
    /\ cpos = "none"
    /\ \E G \in RequestedGroups, ext \in RequestedExtendedAttributes, all \in BOOLEAN :
          /\ groups' = G
          /\ extended_attributes' = ext
          /\ all_users' = all
    /\ group' = None
    /\ pc' = "group_loop"
    /\ first_call' = (pc = "idle")
    /\ result' = <<>>
    /\ error' = ""
    /\ logged' = <<>>
    /\ delivered' = {}
    /\ res' = None
    /\ requests' = 0
    /\ responses' = 0
    /\ ignored' = FALSE
    /\ received' = 0
    /\ yielded' = 0
    /\ UNCHANGED <<connector, formatting, roster, cache, cursor, budget, item>>

\* iter_search_result up to its first request (lines 286-293).
StartCursor ==
    /\ cpos' = "request"
    /\ msgid' = None
    /\ has_next_page' = TRUE
    /\ cookie' = ""
    /\ response_data' = <<>>
    /\ item' = None
    /\ requests' = 0
    /\ responses' = 0
    /\ ignored' = FALSE
    /\ received' = 0
    /\ yielded' = 0
    /\ UNCHANGED inflight

\* Lines 132-145: the next requested group is resolved; no group: warn and
\* continue; several: raise; one: the member search of the group starts.
FindGroup ==
    /\ pc = "group_loop"
    /\ groups /= <<>>
    /\ \E r \in GroupSearchResults(Head(groups)) :
          LET found == find_ldap_group_dn(r)
          IN /\ res' = Some(r)
             /\ IF found.err
                THEN /\ pc' = "raised"
                     /\ error' = MultipleGroupsError
                     /\ logged' = <<>>
                     /\ UNCHANGED <<group, cursor, item, history>>
                ELSE IF found.group_dn = None
                THEN /\ logged' = <<Warning("No group found", Head(groups))>>
                     /\ UNCHANGED <<pc, group, error, cursor, item, history>>
                ELSE /\ pc' = "group_users"
                     /\ group' = Some(Head(groups))
                     /\ logged' = <<>>
                     /\ StartCursor
                     /\ UNCHANGED error
    /\ groups' = Tail(groups)
    /\ UNCHANGED <<connector, formatting, roster, cache, call, budget, result, delivered>>

\* Lines 151-154: after the last group, the search for all users starts.
AllUsers ==
    /\ pc = "group_loop"
    /\ groups = <<>>
    /\ all_users
    /\ pc' = "all_users"
    /\ logged' = <<>>
    /\ StartCursor
    /\ res' = None
    /\ UNCHANGED <<connector, formatting, roster, cache, call, groups, group, budget, result, error, delivered>>

\* The orders in which itervalues() may run over a dict.
Orders(f) ==
    {seq \in [1..Cardinality(DOMAIN f) -> DOMAIN f] :
        \A i, j \in DOMAIN seq : i /= j => seq[i] /= seq[j]}

\* Lines 162-163: return self.user_by_dn.itervalues()
Return ==
    /\ \/ pc = "finish"
       \/ pc = "group_loop" /\ groups = <<>> /\ ~all_users
    /\ pc' = "returned"
    /\ \E order \in Orders(user_by_dn) :
          result' = [i \in DOMAIN order |-> user_by_dn[order[i]]]
    /\ logged' = <<>>
    /\ res' = None
    /\ UNCHANGED <<connector, formatting, roster, cache, call, groups, group, cursor, budget, error, delivered,
                   item, history>>

\* --------------------------------------------------------- iter_search_result
InQuery == pc \in {"group_users", "all_users"}

\* Mutant of AfterPage: the generator ends with the page, whatever has_next_page.
AfterPageStopEarly(items, more) == IF items /= <<>> THEN "yield" ELSE "done"

\* Mutant of AfterPage: the items of a page are yielded only when another page
\* follows.
AfterPageDropLast(items, more) ==
    IF more THEN (IF items /= <<>> THEN "yield" ELSE "read") ELSE "done"

\* Where the generator stands once the items left to yield are `items':
\* in the loop of line 313, at result3 of the next iteration, or exhausted.
AfterPage(items, more) ==
    IF items /= <<>> THEN "yield" ELSE IF more THEN "read" ELSE "done"

\* Lines 309-311: connection.search_ext, the request of the next page.
SearchExt ==
    /\ InQuery
    /\ cpos = "request"
    /\ LET id == CHOOSE n \in 1..(Cardinality(inflight) + 1) : n \notin inflight
       IN /\ msgid' = Some(id)
          /\ inflight' = inflight \cup {id}
    /\ cpos' = AfterPage(response_data, has_next_page)
    /\ requests' = requests + 1
    /\ logged' = <<>>
    /\ res' = None
    /\ UNCHANGED <<connector, formatting, roster, cache, pc, groups, group, call, has_next_page, cookie,
                   response_data, budget, result, error, delivered, item, responses,
                   ignored, received, yielded>>

ResultTypes == {"RES_SEARCH_ENTRY", "RES_SEARCH_RESULT"}
expected_result_types == {"RES_SEARCH_RESULT", "RES_SEARCH_ENTRY"}

\* The paging control of a response: none, or one with a cookie ('' on the last page).
PagingControls == {None, Some(""), Some("c")}

\* Mutant of HasNextPage: without a control the previous cookie decides.
HasNextPageByCookie(pctrl, old_cookie) ==
    IF pctrl = None THEN old_cookie /= "" ELSE pctrl[1] /= ""

\* Lines 302-308: has_next_page after a response whose paging control is pctrl.
HasNextPage(pctrl, old_cookie) == pctrl /= None /\ pctrl[1] /= ""

\* Mutant of AfterResult: an empty cookie ends the cursor before the page is yielded.
AfterResultDropFinal(items, more) == IF more THEN "request" ELSE "done"

\* Mutant of AfterResult: the items of the page are yielded before the request.
AfterResultYieldFirst(items, more) == AfterPage(items, more)

\* Lines 309-312: after a response, the next request comes before the loop
\* that yields the items of the page.
AfterResult(items, more) == IF more THEN "request" ELSE AfterPage(items, FALSE)

\* Lines 297-308: connection.result3(msgid), the response to the outstanding request.
Result3 ==
    /\ InQuery
    /\ cpos = "read"
    /\ msgid /= None
    /\ \E page \in Pages(budget), result_type \in ResultTypes, pctrl \in PagingControls :
          LET more == HasNextPage(pctrl, cookie)
              items == IF result_type \in expected_result_types THEN page ELSE <<>>
          IN /\ (pctrl /= None /\ pctrl[1] /= "") => requests < MaxPages
             /\ budget' = budget - Len(page)
             /\ has_next_page' = more
             /\ cookie' = IF pctrl = None THEN cookie ELSE pctrl[1]
             /\ logged' = IF pctrl = None
                          THEN <<Warning("Server ignored RFC 2696 control.", "")>> ELSE <<>>
             /\ response_data' = items
             /\ cpos' = AfterResult(items, more)
             /\ ignored' = (ignored \/ pctrl = None)
             /\ received' = received + Len(page)
    /\ responses' = responses + 1
    /\ inflight' = inflight \ {msgid[1]}
    /\ msgid' = None
    /\ res' = None
    /\ UNCHANGED <<connector, formatting, roster, cache, pc, groups, group, call, result, error, delivered, item,
                   requests, yielded>>

\* ------------------------------------------------------------------ iter_users
Continue(ubd, hp, log) ==
    [status |-> "continue", ref |-> 0, user_by_dn |-> ubd, heap |-> hp, log |-> log,
     error |-> ""]

\* Mutant of IsCached: the cache is never consulted.
IsCachedNever(dn, ubd) == FALSE

\* Line 201: `dn in self.user_by_dn'
IsCached(dn, ubd) == dn \in DOMAIN ubd

\* Mutant of CacheHit: lines 275-276 run for a cached dict too and reset its groups.
CacheHitReset(dn, ubd, hp) ==
    [status |-> "yield", ref |-> ubd[dn], user_by_dn |-> ubd,
     heap |-> [hp EXCEPT ![ubd[dn]].groups = <<>>], log |-> <<>>, error |-> ""]

\* Line 202: a repeat observation yields the cached dict as it is.
CacheHit(dn, ubd, hp) ==
    [status |-> "yield", ref |-> ubd[dn], user_by_dn |-> ubd, heap |-> hp, log |-> <<>>,
     error |-> ""]

\* Lines 198-279 for one item of the search result: the generator continues with
\* the next item, yields (dn, user) with user the dict at `ref', or raises.
IterUsers(entry, ubd, hp, opts, enc, extended) ==
    IF entry[1] = None THEN Continue(ubd, hp, <<>>)
    ELSE LET dn == entry[1][1]
         IN IF IsCached(dn, ubd) THEN CacheHit(dn, ubd, hp)
            ELSE Eval(BuildUser(dn, entry[2], opts, enc, ExtendedNames(opts, extended)), LAMBDA b :
                    CASE b.status = "raise" ->
                            [status |-> "raise", ref |-> 0, user_by_dn |-> ubd, heap |-> hp,
                             log |-> b.log, error |-> b.error]
                      [] b.status = "skip" -> Continue(ubd, hp, b.log)
                      [] OTHER ->
                            [status |-> "yield", ref |-> Len(hp) + 1,
                             user_by_dn |-> [d \in DOMAIN ubd \cup {dn} |->
                                                IF d = dn THEN Len(hp) + 1 ELSE ubd[d]],
                             heap |-> Append(hp, b.user),
                             log |-> b.log, error |-> ""])

\* Mutant of GroupLoopBody: only a dict that has no group yet is tagged.
GroupLoopBodyFirstOnly(hp, ref, g) ==
    IF hp[ref].groups = <<>> THEN [hp EXCEPT ![ref].groups = Append(@, g)] ELSE hp

\* Line 146, the body of the loop over the members of `group'.
GroupLoopBody(hp, ref, g) == [hp EXCEPT ![ref].groups = Append(@, g)]

\* Mutant of AllUsersLoopBody: the loop tags the user as the group loop does.
AllUsersLoopBodyTag(hp, ref) == [hp EXCEPT ![ref].groups = Append(@, AllUsersQuery)]

\* Lines 155-158, the body of the loop over all users: it only counts.
AllUsersLoopBody(hp, ref) == hp

\* Lines 313-314 with the consumers of the item: iter_users (lines 198-279) and,
\* when it yields, the loop body of load_users_and_groups (line 146 or 155-158).
YieldItem ==
    /\ InQuery
    /\ cpos = "yield"
    /\ \E step \in {IterUsers(Head(response_data), user_by_dn, heap, options, encoding,
                                extended_attributes)} :
       LET query == IF pc = "group_users" THEN group[1] ELSE AllUsersQuery
       IN /\ item' = Some(Head(response_data))
          /\ logged' = step.log
          /\ user_by_dn' = step.user_by_dn
          /\ IF step.status = "raise"
             THEN /\ pc' = "raised"
                  /\ error' = step.error
                  /\ cpos' = "suspended"
                  /\ response_data' = <<>>
                  /\ UNCHANGED <<heap, delivered>>
             ELSE /\ response_data' = Tail(response_data)
                  /\ cpos' = AfterPage(Tail(response_data), has_next_page)
                  /\ IF step.status = "yield"
                     THEN /\ heap' = IF pc = "group_users"
                                     THEN GroupLoopBody(step.heap, step.ref, group[1])
                                     ELSE AllUsersLoopBody(step.heap, step.ref)
                          /\ delivered' = delivered \cup {<<query, Head(response_data)[1][1], step.ref>>}
                     ELSE /\ heap' = step.heap
                          /\ UNCHANGED delivered
                  /\ UNCHANGED <<pc, error>>
    /\ yielded' = yielded + 1
    /\ res' = None
    /\ UNCHANGED <<connector, formatting, roster, call, groups, group, msgid, has_next_page, cookie, inflight,
                   budget, result, requests, responses, ignored, received>>

\* The generator is exhausted (line 294 with has_next_page false): the loop of
\* line 145 or 154 ends.
EndQuery ==
    /\ InQuery
    /\ cpos = "done"
    /\ cpos' = "none"
    /\ IF pc = "group_users"
       THEN pc' = "group_loop"
       ELSE pc' = "finish"
    /\ group' = None
    /\ item' = None
    /\ res' = None
    /\ logged' = <<>>
    /\ UNCHANGED <<connector, formatting, roster, cache, call, groups, msgid, has_next_page, cookie, response_data,
                   inflight, budget, result, error, delivered, history>>

\* Mutant of Abandon: the generator is closed without abandoning.
AbandonNothing(mid, requested) == requested

\* Lines 316-317: `if msgid is not None: connection.abandon(msgid)'
Abandon(mid, requested) == IF mid /= None THEN requested \ {mid[1]} ELSE requested

\* Lines 315-318: the suspended generator is closed after the exception left
\* load_users_and_groups; an outstanding request is abandoned.
GeneratorExit ==
    /\ cpos = "suspended"
    /\ cpos' = "none"
    /\ inflight' = Abandon(msgid, inflight)
    /\ msgid' = None
    /\ item' = None
    /\ res' = None
    /\ logged' = <<>>
    /\ UNCHANGED <<connector, formatting, roster, cache, call, pc, groups, group, has_next_page, cookie, response_data,
                   budget, result, error, delivered, history>>

Next ==
    \/ LoadUsersAndGroups
    \/ FindGroup
    \/ AllUsers
    \/ Return
    \/ SearchExt
    \/ Result3
    \/ YieldItem
    \/ EndQuery
    \/ GeneratorExit

Spec == Init /\ [][Next]_vars

\* ---------------------------------------------- LDAPValueFormatter on its own
\* Format strings over the attributes a and b, as string.Formatter().parse()
\* gives them, and no format.
Formats ==
    {None,
     Some(<<Field("a")>>),
     Some(<<Lit(<<"x">>)>>),
     Some(<<Lit(<<"x">>), Field("a"), Lit(<<"@">>), Field("b")>>),
     Some(<<Field("b"), Field("a")>>),
     Some(<<Field("a"), Field("a"), Lit(<<"x">>)>>)}

\* Value lists of an attribute: empty, two values, one value that is no utf-8.
AttributeValues == { <<>>, << <<"u">>, <<"v">> >>, << <<HighByte>> >> }
FormatRecords == UNION {[D -> AttributeValues] : D \in SUBSET {"a", "b"}}

\* LDAPValueFormatter(string_format), lines 324-334.
NewFormatter ==
    /\ \E f \in Formats : formatter' = LDAPValueFormatter(f)
    /\ UNCHANGED <<connector, cache, call, cursor, history, roster, pc, groups, group, budget, result,
                   error, logged, delivered, item, res, record, value>>

\* formatter.generate_value(record), lines 342-359, under the class attribute.
GenerateValue ==
    /\ \E r \in FormatRecords :
          /\ record' = r
          /\ value' = generate_value(formatter, r, encoding)
    /\ UNCHANGED <<connector, cache, call, cursor, history, roster, pc, groups, group, budget, result,
                   error, logged, delivered, item, res, formatter>>

\* Line 95 in the constructor of another connector of the process:
\* LDAPValueFormatter.encoding = options['string_encoding']
ConstructOther ==
    /\ \E enc \in Encodings : encoding' = enc
    /\ UNCHANGED <<options, cache, call, cursor, history, roster, pc, groups, group, budget, result,
                   error, logged, delivered, item, res, formatting>>

FormatterNext ==
    \/ NewFormatter
    \/ GenerateValue
    \/ ConstructOther

FormatterSpec == Init /\ [][FormatterNext]_vars

\* --------------------------------------------- ClasslinkConnector.make_call
\* str() and int() of a number of one decimal digit.
Digits == <<"0", "1", "2", "3", "4", "5", "6", "7", "8", "9">>
str(n) == Digits[n + 1]
int(s) == CHOOSE n \in 0..9 : Digits[n + 1] = s

\* The variables of the LDAP connector and of the formatter.
ldap == <<connector, cache, call, cursor, history, formatting, pc, groups, group, budget,
          result, error, logged, delivered, item, res>>

\* ClasslinkConnector.__init__ (lines 43-51): self.page_size = str(options['page_size'])
ClasslinkConnector ==
    /\ mpc = "none"
    /\ \E size \in 1..MaxPageSize : page_size' = str(size)
    /\ mpc' = "idle"
    /\ UNCHANGED <<ldap, backend, url, request_type, group_filter, group_name, key,
                   response, user_list, fetched, merror, mwarned>>

\* construct_url (lines 98-107): '...?limit=' + self.page_size + '&offset=0'
construct_url(size) == [limit |-> size, offset |-> 0]

\* The arguments execute_actions (lines 79-81, 89-95) gives make_call for the
\* request types other than 'key_identifier'.
Calls ==
    {[request_type |-> "all_users", group_filter |-> None, group_name |-> None],
     [request_type |-> "mapped_users", group_filter |-> Some("classes"),
      group_name |-> Some("classes")],
     [request_type |-> "course_classlist", group_filter |-> Some("courses"),
      group_name |-> None]}

\* An entry of the backend: entry n has the key identifier n.
RosterEntry(n) == [sourcedId |-> n]

\* classlink_api.make_roster_request(url) (lines 114, 116) on a backend that
\* holds n entries: the entries from the offset of the url up to its limit
\* under the one key of the content, their number in the x-count header, and
\* the links first, last (the page of the last entry) and, when entries follow
\* the page, next.
make_roster_request(u, n, ok) ==
    LET limit == int(u.limit)
        rows == [i \in 1..(IF n - u.offset < limit THEN n - u.offset ELSE limit) |->
                    RosterEntry(u.offset + i)]
        last == IF n = 0 THEN 0 ELSE ((n - 1) \div limit) * limit
        rels == {"first", "last"} \cup (IF u.offset + limit < n THEN {"next"} ELSE {})
    IN [ok |-> ok,
        content |-> IF ok THEN rows ELSE <<>>,
        x_count |-> str(Len(rows)),
        links |-> [r \in rels |->
                     [url |-> [limit |-> u.limit,
                               offset |-> CASE r = "first" -> 0
                                            [] r = "next" -> u.offset + limit
                                            [] OTHER -> last]]]]

\* Lines 131-136: what the content of a response adds to user_list. For
\* 'course_classlist' the key identifier of the first entry of the list
\* (entry[0], an IndexError on an empty list), otherwise the whole list.
ExtendUserList(rtype, content, lst) ==
    IF rtype = "course_classlist"
    THEN IF content = <<>> THEN [err |-> "IndexError", user_list |-> lst]
         ELSE [err |-> "", user_list |-> Append(lst, content[1].sourcedId)]
    ELSE [err |-> "", user_list |-> lst \o content]

\* Line 137: key == 'last' or int(x-count) < int(self.page_size)
LoopBreaks(k, x_count, size) == k = Some("last") \/ int(x_count) < int(size)

\* Line 139: key = 'next' if 'next' in response.links else 'last'
NextKey(links) == IF "next" \in DOMAIN links THEN Some("next") ELSE Some("last")

\* Lines 109-111: make_call(url, request_type, group_filter, group_name) on a
\* backend of some number of entries, up to the loop.
MakeCall ==
    /\ mpc \in {"idle", "returned", "raised"}
    /\ \E c \in Calls, n \in 0..MaxRosterEntries :
          /\ request_type' = c.request_type
          /\ group_filter' = c.group_filter
          /\ group_name' = c.group_name
          /\ backend' = n
    /\ url' = Some(construct_url(page_size))
    /\ user_list' = <<>>
    /\ key' = Some("first")
    /\ response' = None
    /\ fetched' = <<>>
    /\ mpc' = "loop"
    /\ merror' = ""
    /\ mwarned' = FALSE
    /\ UNCHANGED <<ldap, page_size>>

\* Lines 112-144: one iteration of the loop, that is one request and what is
\* done with its response, and on the break of line 138 the return of lines
\* 141-144 (the warning of line 142 concatenates group_filter and group_name,
\* a TypeError when one of them is None).
MakeRosterRequest ==
    /\ mpc = "loop"
    /\ \E ok \in BOOLEAN :
          LET target == IF key = Some("first") THEN url[1] ELSE response[1].links[key[1]].url
              resp == make_roster_request(target, backend, ok)
              added == ExtendUserList(request_type, resp.content, user_list)
          IN /\ response' = Some(resp)
             /\ fetched' = Append(fetched, target.offset)
             /\ IF ~resp.ok
                THEN /\ mpc' = "raised"
                     /\ merror' = "ValueError"
                     /\ UNCHANGED <<user_list, key, mwarned>>
                ELSE IF added.err /= ""
                THEN /\ mpc' = "raised"
                     /\ merror' = added.err
                     /\ UNCHANGED <<user_list, key, mwarned>>
                ELSE /\ user_list' = added.user_list
                     /\ IF LoopBreaks(key, resp.x_count, page_size)
                        THEN /\ IF added.user_list = <<>>
                                   /\ (group_filter = None \/ group_name = None)
                                THEN mpc' = "raised" /\ merror' = "TypeError"
                                     /\ UNCHANGED mwarned
                                ELSE mpc' = "returned" /\ mwarned' = (added.user_list = <<>>)
                                     /\ UNCHANGED merror
                             /\ UNCHANGED key
                        ELSE /\ key' = NextKey(resp.links)
                             /\ UNCHANGED <<mpc, merror, mwarned>>
    /\ UNCHANGED <<ldap, page_size, backend, url, request_type, group_filter, group_name>>

MakeCallNext ==
    \/ ClasslinkConnector
    \/ MakeCall
    \/ MakeRosterRequest

MakeCallSpec == Init /\ [][MakeCallNext]_vars

\* ------------------------------------------------------------------- claims
Range(f) == {f[k] : k \in DOMAIN f}
IsPrefix(s, t) == Len(s) <= Len(t) /\ SubSeq(t, 1, Len(s)) = s
Returned == pc = "returned"

\* C1: the sequence load_users_and_groups returns is exactly the values of
\* user_by_dn, one dict per distinct dn: distinct dns have distinct dicts, no dict
\* was ever built besides the one of its dn, and every delivery of a dn by a
\* group query or by the all-users query yielded the dict of that dn.
C1_OneRecordPerDn ==
    /\ Cardinality(Range(user_by_dn)) = Cardinality(DOMAIN user_by_dn)
    /\ Range(user_by_dn) = 1..Len(heap)
    /\ \A t \in delivered : t[2] \in DOMAIN user_by_dn /\ t[3] = user_by_dn[t[2]]
    /\ Returned => /\ Len(result) = Cardinality(DOMAIN user_by_dn)
                   /\ Range(result) = Range(user_by_dn)

\* A call has returned after one dn was delivered both by a group query and by
\* the all-users query.
C1_Witness ==
    /\ Returned
    /\ \E t \in delivered, u \in delivered :
          t[1] /= AllUsersQuery /\ u[1] = AllUsersQuery /\ t[2] = u[2]

\* The groups of the dict of dn, as a set.
GroupsOf(dn) == Range(heap[user_by_dn[dn]].groups)
DeliveredBy(query, dn) == \E t \in delivered : t[1] = query /\ t[2] = dn

\* C2: after the first call on a connector, made with all_users true, a returned
\* user has group g in its group list iff its dn was delivered by the member
\* query of g; users no member query delivered have an empty group list.
C2_GroupsAreMemberships ==
    (Returned /\ first_call /\ all_users) =>
        \A dn \in DOMAIN user_by_dn :
            /\ \A g \in GroupNames : g \in GroupsOf(dn) <=> DeliveredBy(g, dn)
            /\ (\A g \in GroupNames : ~DeliveredBy(g, dn)) =>
                    heap[user_by_dn[dn]].groups = <<>>

\* The first call returned a member of a group and a user that only the
\* all-users query delivered.
C2_Witness ==
    /\ Returned /\ first_call /\ all_users
    /\ \E d1 \in DOMAIN user_by_dn, d2 \in DOMAIN user_by_dn :
          /\ GroupsOf(d1) /= {}
          /\ GroupsOf(d2) = {} /\ DeliveredBy(AllUsersQuery, d2)

\* C3: no group list holds the same group name more than once.
C3_NoDuplicateGroup ==
    \A r \in 1..Len(heap) :
        \A i, j \in 1..Len(heap[r].groups) :
            i /= j => heap[r].groups[i] /= heap[r].groups[j]

\* C4: the cache only grows: a dn stays a key and keeps its dict (as a
\* reference), no field of a dict but its group list ever changes, and a group
\* list changes only by appending.
C4_CacheMonotone ==
    [][/\ \A dn \in DOMAIN user_by_dn :
            dn \in DOMAIN user_by_dn' /\ user_by_dn'[dn] = user_by_dn[dn]
       /\ \A r \in 1..Len(heap) :
            /\ r <= Len(heap')
            /\ [heap'[r] EXCEPT !.groups = <<>>] = [heap[r] EXCEPT !.groups = <<>>]
            /\ IsPrefix(heap[r].groups, heap'[r].groups)]_vars

ItemDn == item[1][1][1]
ItemRecord == item[1][2]
ItemHasDn == item /= None /\ item[1][1] /= None

\* iter_users has just gone over an entry of a cached dn whose attributes give
\* another email than the cached dict holds, and the dict has a group.
C4_Witness ==
    /\ ItemHasDn
    /\ ItemDn \in DOMAIN user_by_dn
    /\ heap[user_by_dn[ItemDn]].groups /= <<>>
    /\ LET b == BuildUser(ItemDn, ItemRecord, options, encoding, {})
       IN b.status = "ok" /\ b.user.email /= heap[user_by_dn[ItemDn]].email

\* C5: the all-users query changes no group list, and a dict it builds has an
\* empty group list, up to the return of the call.
C5_AllUsersKeepsGroups ==
    [][(pc = "all_users" \/ pc = "finish") =>
          /\ \A r \in 1..Len(heap) : r <= Len(heap') /\ heap'[r].groups = heap[r].groups
          /\ \A r \in (Len(heap) + 1)..Len(heap') : Len(heap'[r].groups) = 0]_vars

\* A call returned after the all-users query delivered a dn whose dict a group
\* query had tagged.
C5_Witness ==
    /\ Returned
    /\ all_users
    /\ \E t \in delivered : t[1] = AllUsersQuery /\ heap[t[3]].groups /= <<>>

\* The entries of a group search result that have a dn.
Matches(r) == {i \in 1..Len(r) : r[i] /= None}

\* C6: a fetched group that resolves to no entry is logged with a warning and
\* skipped: no member search is issued, no dict is tagged, nothing is raised,
\* and the call is at the next fetched group.
C6_MissingGroupSkipped ==
    [][(res' /= None /\ Matches(res'[1]) = {}) =>
          /\ logged' = <<Warning("No group found", Head(groups))>>
          /\ pc = "group_loop" /\ pc' = "group_loop"
          /\ groups' = Tail(groups)
          /\ error' = ""
          /\ cpos' = "none" /\ inflight' = inflight
          /\ UNCHANGED <<user_by_dn, heap, delivered, all_users>>]_vars

\* A group was just skipped for having no entry, with a later group and the
\* all-users query still to come.
C6_Witness ==
    /\ res /= None /\ Matches(res[1]) = {}
    /\ pc = "group_loop" /\ groups /= <<>> /\ all_users
    /\ logged /= <<>> /\ logged[1][1] = "No group found"

\* C7: a fetched group that resolves to several entries raises: no member
\* search is issued for it, and the call that raised processes nothing more
\* (no group, no all-users query, no change of the cache, no request).
C7_AmbiguousGroupRaises ==
    [][/\ (res' /= None /\ Cardinality(Matches(res'[1])) > 1) =>
            /\ pc' = "raised"
            /\ error' = MultipleGroupsError
            /\ cpos' = "none" /\ inflight' = inflight
            /\ UNCHANGED <<user_by_dn, heap, delivered>>
       /\ pc = "raised" =>
            /\ UNCHANGED <<user_by_dn, heap>>
            /\ inflight' \subseteq inflight
            /\ \/ pc' = "raised" /\ UNCHANGED <<groups, delivered, error>>
               \/ pc' = "group_loop" /\ delivered' = {} /\ error' = ""]_vars

\* A call raised at an ambiguous group with a later group and the all-users
\* query still fetched.
C7_Witness ==
    /\ pc = "raised" /\ error = MultipleGroupsError
    /\ res /= None /\ Cardinality(Matches(res[1])) > 1
    /\ groups /= <<>> /\ all_users

\* The email iter_users derives from a record: [err, email].
DerivedEmail(rec) ==
    LET e == generate_value(LDAPValueFormatter(options.user_email_format), rec, encoding)
    IN [err |-> e.err, email |-> StripOrNone(e.result)]
NoEmail(rec) == ~DerivedEmail(rec).err /\ ~Truthy(DerivedEmail(rec).email)

\* The generator is about to yield `entry', an entry of a dn not in the cache.
AtNewEntry(entry) ==
    /\ InQuery /\ cpos = "yield"
    /\ entry = Head(response_data)
    /\ entry[1] /= None
    /\ entry[1][1] \notin DOMAIN user_by_dn

\* The entry is passed over: nothing is cached, tagged or raised, and the
\* generator is at the next item of the page.
EntrySkipped ==
    /\ UNCHANGED <<user_by_dn, heap, delivered, pc, error>>
    /\ response_data' = Tail(response_data)
    /\ response_data' /= <<>> => cpos' = "yield"

\* C8: an entry whose derived email is absent or empty after stripping is
\* skipped, and no dict in the cache has an empty email.
C8_NoEmailSkipped ==
    [][/\ \A entry \in SearchEntries :
            (AtNewEntry(entry) /\ NoEmail(entry[2])) => EntrySkipped
       /\ \A r \in 1..Len(heap') :
            Truthy(heap'[r].email) /\ Strip(heap'[r].email[1]) = heap'[r].email[1]]_vars

\* iter_users has just skipped an entry without email and is at the next entry
\* of the same page.
C8_Witness ==
    /\ ItemHasDn
    /\ NoEmail(ItemRecord)
    /\ ItemDn \notin DOMAIN user_by_dn
    /\ pc \in {"group_users", "all_users"} /\ cpos = "yield"

\* The record has an email and its identity-type format gives a value outside
\* the enumeration.
InvalidIdentityType(rec) ==
    LET t == generate_value(LDAPValueFormatter(options.user_identity_type_format),
                            rec, encoding)
    IN /\ ~DerivedEmail(rec).err /\ Truthy(DerivedEmail(rec).email)
       /\ ~t.err /\ Truthy(t.result) /\ t.result[1] \notin IdentityTypes

\* C9: an entry with an identity-type value outside the enumeration is skipped
\* with a warning, and load_users_and_groups goes on with the next entry.
C9_InvalidIdentitySkipped ==
    [][\A entry \in SearchEntries :
          (AtNewEntry(entry) /\ InvalidIdentityType(entry[2])) =>
              /\ EntrySkipped
              /\ Warning("Skipping user: identity type", entry[1][1]) \in Range(logged')]_vars

\* iter_users has just skipped an entry for its identity type, with a warning,
\* and is at the next entry of the page.
C9_Witness ==
    /\ ItemHasDn
    /\ InvalidIdentityType(ItemRecord)
    /\ ItemDn \notin DOMAIN user_by_dn
    /\ Warning("Skipping user: identity type", ItemDn) \in Range(logged)
    /\ cpos = "yield"

\* C10, as claimed: an entry with an invalid identity-type value makes
\* load_users_and_groups raise.
C10_InvalidIdentityFatal ==
    [][\A entry \in SearchEntries :
          (AtNewEntry(entry) /\ InvalidIdentityType(entry[2])) => pc' = "raised"]_vars

\* C10, amended: an invalid identity-type value is not fatal: the call does not
\* raise at such an entry, and a call raises only for an ambiguous group or an
\* encoding error.
C10_InvalidIdentityNotFatal ==
    [][/\ \A entry \in SearchEntries :
            (AtNewEntry(entry) /\ InvalidIdentityType(entry[2])) =>
                pc' = pc /\ error' = ""
       /\ pc' = "raised" => error' \in {MultipleGroupsError, EncodingError}]_vars

\* The last entry of a final page was skipped for its identity type and the
\* query ends normally.
C10_Witness ==
    /\ ItemHasDn
    /\ InvalidIdentityType(ItemRecord)
    /\ ItemDn \notin DOMAIN user_by_dn
    /\ pc \in {"group_users", "all_users"} /\ cpos = "done" /\ error = ""

\* The first value of attribute n of the record cannot be decoded.
Undecodable(rec, n) ==
    /\ n \in DOMAIN rec
    /\ Len(rec[n]) > 0
    /\ Decode(rec[n][1], encoding).err

\* The attributes iter_users reads for an entry it does not skip.
FormatNames(f) ==
    {LDAPValueFormatter(f).attribute_names[i] :
        i \in 1..Len(LDAPValueFormatter(f).attribute_names)}
ConsumedNames ==
    FormatNames(options.user_email_format) \cup FormatNames(options.user_identity_type_format)
    \cup FormatNames(options.user_username_format) \cup FormatNames(options.user_domain_format)
    \cup BuiltinAttributes \cup ExtendedNames(options, extended_attributes)

\* Building a record from this raw record reads a value that cannot be decoded:
\* in the email, or, the entry having an email and no invalid identity type,
\* in any attribute read. (Every format of Configs has at most one placeholder.)
ReadsUndecodable(rec) ==
    \/ \E n \in FormatNames(options.user_email_format) : Undecodable(rec, n)
    \/ /\ ~NoEmail(rec)
       /\ ~InvalidIdentityType(rec)
       /\ \E n \in ConsumedNames : Undecodable(rec, n)

\* C11: an undecodable value read while a record is built for a dn not in the
\* cache makes load_users_and_groups raise the encoding error: the entry is not
\* cached, the cursor is left suspended, and the call does nothing more.
C11_DecodingFailureFatal ==
    [][/\ \A entry \in SearchEntries :
            (AtNewEntry(entry) /\ ReadsUndecodable(entry[2])) =>
                /\ pc' = "raised"
                /\ error' = EncodingError
                /\ cpos' = "suspended"
                /\ UNCHANGED <<user_by_dn, heap, delivered>>
       /\ (pc = "raised" /\ error = EncodingError) =>
            \/ pc' = "raised" /\ UNCHANGED <<user_by_dn, heap, delivered, requests>>
            \/ pc' = "group_loop" /\ cpos = "none"]_vars

\* A call raised the encoding error at an entry with an undecodable value.
C11_Witness ==
    /\ pc = "raised" /\ error = EncodingError
    /\ ItemHasDn
    /\ ItemDn \notin DOMAIN user_by_dn
    /\ ReadsUndecodable(ItemRecord)

\* C12: while every response carries a paging control, the cursor makes one
\* request per page (the first, then one after each page with a non-empty
\* cookie), hands the items of a page to its consumer one by one from the head,
\* reads the next response only when the page is used up, and is exhausted
\* with N requests, N >= 1 responses, every item received yielded, and an
\* empty cookie.
C12_PagedCursor ==
    [][/\ (cpos' = "done" /\ ~ignored') =>
            /\ responses' >= 1 /\ requests' = responses'
            /\ yielded' = received' /\ response_data' = <<>>
            /\ cookie' = "" /\ msgid' = None
       /\ cpos' = "read" =>
            /\ response_data' = <<>> /\ yielded' = received'
            /\ requests' = responses' + 1
       /\ (cpos' = "request" /\ requests' > 0 /\ ~ignored') => cookie' /= ""
       /\ requests' \in {0, requests, requests + 1}
       /\ cpos = "read" =>
            /\ responses' = responses + 1
            /\ received' = received + Len(response_data')
       /\ cpos = "yield" =>
            /\ item' = Some(Head(response_data))
            /\ yielded' = yielded + 1
            /\ pc' /= "raised" => response_data' = Tail(response_data)]_vars

\* A cursor is exhausted after several pages, all with a paging control, and
\* has yielded several items.
C12_Witness ==
    /\ cpos = "done" /\ ~ignored
    /\ responses >= 2 /\ requests = responses
    /\ yielded >= 2 /\ yielded = received
    /\ cookie = ""

\* C13: when the generator is closed at a yield, it abandons the request that
\* is outstanding (the one in msgid) and nothing else, and abandons nothing
\* when none is outstanding; a cursor that has ended, by exhaustion or by being
\* closed, leaves no request that was neither read nor abandoned.
C13_CancelAbandons ==
    [][/\ (cpos = "suspended" /\ cpos' = "none") =>
            /\ msgid /= None => (msgid[1] \in inflight /\ inflight' = inflight \ {msgid[1]})
            /\ msgid = None => inflight' = inflight
            /\ msgid' = None
       /\ cpos' \in {"done", "none"} => (inflight' = {} /\ msgid' = None)
       /\ cpos' = "suspended" => inflight' = {m \in {1} : requests' > responses'}]_vars

\* A cursor was closed after its consumer raised while the request of the next
\* page was outstanding, and the request is gone.
C13_Witness ==
    /\ pc = "raised" /\ cpos = "none"
    /\ requests > responses
    /\ inflight = {}

IgnoredWarning == Warning("Server ignored RFC 2696 control.", "")

\* C14: a response without paging control is logged with a warning and ends
\* the paging of its search, whatever the cookie before it: the cookie is kept,
\* no request is made after it, nothing is raised, and the cursor only yields
\* the items of that response and is exhausted.
C14_IgnoredControlStops ==
    [][/\ cpos = "read" =>
            /\ (logged' = <<IgnoredWarning>>) <=> ignored'
            /\ ignored' =>
                /\ cookie' = cookie
                /\ cpos' = (IF response_data' /= <<>> THEN "yield" ELSE "done")
                /\ pc' = pc /\ error' = ""
       /\ ignored' =>
            /\ ~has_next_page' /\ msgid' = None /\ inflight' = {}
            /\ requests' = responses'
            /\ cpos' \in {"yield", "done", "suspended", "none"}
       /\ (ignored /\ cpos \in {"yield", "done"}) =>
            (requests' = requests /\ cpos' \in {"yield", "done", "suspended", "none"})]_vars

\* A cursor is exhausted after a response without paging control that followed
\* a page with a non-empty cookie.
C14_Witness ==
    /\ ignored /\ cpos = "done"
    /\ responses >= 2
    /\ cookie /= ""
    /\ error = ""

\* The placeholder names of a format, in the order of the format.
Placeholders(string_format) ==
    LET fields == SelectSeq(string_format[1], LAMBDA it : it.field /= None)
    IN [i \in 1..Len(fields) |-> fields[i].field[1]]
HasValue(rec, n) == n \in DOMAIN rec /\ Len(rec[n]) > 0

\* The format with each placeholder replaced by the decoded first value of its
\* attribute.
RECURSIVE Substituted(_, _, _)
Substituted(items, rec, enc) ==
    IF items = <<>> THEN <<>>
    ELSE Head(items).lit
         \o (IF Head(items).field = None THEN <<>>
             ELSE Decode(rec[Head(items).field[1]][1], enc).val[1])
         \o Substituted(Tail(items), rec, enc)

\* What C15 says generate_value returns for a formatter, a record and an encoding.
Expected(f, rec, enc) ==
    IF f.string_format = None THEN [result |-> None, attribute_name |-> None]
    ELSE LET names == Placeholders(f.string_format)
             missing == {i \in 1..Len(names) : ~HasValue(rec, names[i])}
         IN IF missing /= {}
            THEN [result |-> None,
                  attribute_name |->
                      Some(names[CHOOSE i \in missing : \A j \in missing : i <= j])]
            ELSE [result |-> Some(Substituted(f.string_format[1], rec, enc)),
                  attribute_name |-> IF names = <<>> THEN None ELSE Some(names[Len(names)])]

\* C15: whenever generate_value returns, it returns (None, None) for no format,
\* (None, first placeholder without value) when one has no value, and otherwise
\* (the format with the decoded first values, the last placeholder).
C15_GenerateValue ==
    [][(record' /= record \/ value' /= value) =>
          (~value'.err =>
              /\ value'.result = Expected(formatter, record', encoding).result
              /\ value'.attribute_name =
                    Expected(formatter, record', encoding).attribute_name)]_vars

\* generate_value returned for a format of two placeholders and a record
\* that lacks the second.
C15_Witness ==
    /\ formatter.string_format /= None
    /\ Len(formatter.attribute_names) = 2
    /\ HasValue(record, formatter.attribute_names[1])
    /\ ~HasValue(record, formatter.attribute_names[2])
    /\ ~value.err
    /\ value.result = None
    /\ value.attribute_name = Some(formatter.attribute_names[2])

\* C16, as claimed: while the cursor yields the items of a page, no request
\* for the next page is outstanding.
C16_RequestAfterYield == cpos = "yield" => (msgid = None /\ inflight = {})

\* C16, amended: the request for the next page is made when the response with
\* a non-empty cookie has been read, before the items of that page are yielded:
\* while the items of a page are yielded, the request for the next page is
\* outstanding, and it is the only one, exactly when the page is not the last.
C16_RequestBeforeYield ==
    cpos = "yield" =>
        /\ has_next_page <=> msgid /= None
        /\ inflight = {msgid[i] : i \in 1..Len(msgid)}
        /\ requests = responses + Len(msgid)
        /\ responses >= 1

\* The consumer has received an item of a page and the next item of the page is
\* due, while the request for the next page is outstanding.
C16_Witness ==
    /\ cpos = "yield"
    /\ item /= None
    /\ has_next_page /\ msgid /= None /\ inflight /= {}
    /\ requests = responses + 1

\* C17: at most one request is outstanding, and a group-resolution search or
\* a new cursor starts, and the first request of a cursor is made, only when the
\* cursor before it in the call is exhausted: every response read, every
\* item yielded, no request outstanding.
C17_QueriesSequential ==
    [][/\ Cardinality(inflight') <= 1
       /\ ((pc = "group_loop" /\ res' /= None) \/ (cpos = "none" /\ cpos' = "request")) =>
            /\ cpos = "none"
            /\ inflight = {} /\ msgid = None
            /\ requests = responses /\ yielded = received /\ response_data = <<>>
            /\ requests > 0 => ~has_next_page
       /\ (requests' = 1 /\ requests = 0) => (inflight = {} /\ responses = 0)]_vars

\* The all-users query has made its first request after a group query of the
\* same call delivered users over several pages.
C17_Witness ==
    /\ pc = "all_users" /\ cpos = "read"
    /\ requests = 1 /\ responses = 0
    /\ Cardinality(inflight) = 1
    /\ Cardinality({t \in delivered : t[1] /= AllUsersQuery}) >= 2

\* The stripped value of the username format for a raw record.
DerivedUsername(rec) ==
    StripOrNone(generate_value(LDAPValueFormatter(options.user_username_format), rec,
                               encoding).result)

\* C18: every dict of the cache has a non-empty email without whitespace at
\* its ends and a non-empty username; a dict just built has the stripped email,
\* and as username the stripped value of the username format when that is
\* non-empty, its email otherwise.
C18_EmailAndUsername ==
    [][/\ \A r \in 1..Len(heap') :
            /\ Truthy(heap'[r].email)
            /\ Head(heap'[r].email[1]) \notin Whitespace
            /\ heap'[r].email[1][Len(heap'[r].email[1])] \notin Whitespace
            /\ Truthy(heap'[r].username)
       /\ \A entry \in SearchEntries :
            (AtNewEntry(entry) /\ Len(heap') = Len(heap) + 1) =>
                /\ heap'[Len(heap')].email = DerivedEmail(entry[2]).email
                /\ heap'[Len(heap')].username =
                      (IF Truthy(DerivedUsername(entry[2])) THEN DerivedUsername(entry[2])
                       ELSE heap'[Len(heap')].email)]_vars

\* The cache holds a dict whose username comes from the username format and
\* one whose username is its email, the format having given only whitespace.
C18_Witness ==
    /\ options.user_username_format /= None
    /\ \E r \in 1..Len(heap) : heap[r].username /= heap[r].email
    /\ \E r \in 1..Len(heap) :
          /\ heap[r].username = heap[r].email
          /\ heap[r].source_attributes["username"] = Some(<<>>)

\* The identity-type format gives no value for the raw record: there is no
\* format, or the attribute of a placeholder has no value.
NoIdentityValue(rec) ==
    LET t == generate_value(LDAPValueFormatter(options.user_identity_type_format), rec,
                            encoding)
    IN ~t.err /\ ~Truthy(t.result)

\* The identity-type format names an attribute.
IdentityPlaceholder ==
    /\ options.user_identity_type_format /= None
    /\ Len(Placeholders(options.user_identity_type_format)) > 0

IdentityWarning(dn) == Warning("No identity_type attribute", dn)

\* C19: an entry with an email for which the identity-type format gives no
\* value is kept (unless a later value cannot be decoded): its dict is cached
\* with the connector's default identity type, and the warning is logged
\* exactly when the format names an attribute.
C19_DefaultIdentityType ==
    [][\A entry \in SearchEntries :
          (/\ AtNewEntry(entry)
           /\ ~NoEmail(entry[2]) /\ ~DerivedEmail(entry[2]).err
           /\ NoIdentityValue(entry[2])
           /\ pc' /= "raised") =>
              /\ Len(heap') = Len(heap) + 1
              /\ entry[1][1] \in DOMAIN user_by_dn'
              /\ user_by_dn'[entry[1][1]] = Len(heap')
              /\ heap'[Len(heap')].identity_type = options.user_identity_type
              /\ IdentityWarning(entry[1][1]) \in Range(logged') <=> IdentityPlaceholder]_vars

\* A dict was just built, with the default identity type and the warning, from
\* a record that lacks the attribute of the identity-type format.
C19_Witness ==
    /\ ItemHasDn
    /\ ItemDn \in DOMAIN user_by_dn
    /\ user_by_dn[ItemDn] = Len(heap)
    /\ NoIdentityValue(ItemRecord)
    /\ IdentityPlaceholder
    /\ IdentityWarning(ItemDn) \in Range(logged)
    /\ heap[Len(heap)].identity_type = Some(FederatedID)

\* C20, as claimed: what generate_value returns (or raises) for a format and a
\* record is the same before and after any step of the process, the
\* construction of another connector included.
C20_GenerateValuePure ==
    [][\A f \in Formats, rec \in FormatRecords :
          generate_value(LDAPValueFormatter(f), rec, encoding')
              = generate_value(LDAPValueFormatter(f), rec, encoding)]_vars

\* The placeholder names of a format, each once, in the order of their first
\* occurrence.
FirstOccurrences(names) ==
    LET firsts == {i \in 1..Len(names) : \A j \in 1..(i - 1) : names[j] /= names[i]}
        F[i \in 0..Len(names)] ==
            IF i = 0 THEN <<>>
            ELSE IF i \in firsts THEN Append(F[i - 1], names[i]) ELSE F[i - 1]
    IN F[Len(names)]

\* C21, as claimed: get_attribute_names returns the placeholder names of the
\* format in the order of their first occurrence, each name once however often
\* the format references it, and nothing when there is no format.
C21_NamesOnce ==
    LET names == get_attribute_names(formatter)
    IN /\ formatter.string_format = None => names = <<>>
       /\ formatter.string_format /= None =>
             names = FirstOccurrences(Placeholders(formatter.string_format))
       /\ \A i, j \in 1..Len(names) : names[i] = names[j] => i = j

\* C22: a response without paging control, or with an empty cookie, stops the
\* requests and nothing else: the cursor makes no request after it, yields the
\* items of that response one by one from the head, and is only exhausted when
\* every item it received has been yielded.
C22_LastPageYielded ==
    [][/\ (cpos = "read" /\ ~has_next_page') =>
            /\ Len(response_data') = received' - received
            /\ cpos' = (IF response_data' /= <<>> THEN "yield" ELSE "done")
            /\ requests' = requests /\ msgid' = None
       /\ (cpos = "yield" /\ ~has_next_page) =>
            /\ item' = Some(Head(response_data))
            /\ yielded' = yielded + 1
            /\ requests' = requests
            /\ cpos' = "done" => Tail(response_data) = <<>>
       /\ cpos' = "done" => (yielded' = received' /\ ~has_next_page')]_vars

\* A cursor is exhausted after a single response, which had no paging control
\* and whose items were all yielded.
C22_Witness ==
    /\ cpos = "done" /\ ignored
    /\ responses = 1 /\ requests = 1
    /\ received >= 1 /\ yielded = received
    /\ error = ""

\* C23: a fatal error rolls nothing back. The step that raises, and every step
\* from the raised call up to and including the next call, leaves the cache
\* and every dict in it as they are; no later step removes a record or a group
\* tag; and a call that returns, returns the dict of every dn in the cache.
C23_NoRollback ==
    [][/\ (pc' = "raised" \/ pc = "raised") =>
            (user_by_dn' = user_by_dn /\ heap' = heap)
       /\ \A dn \in DOMAIN user_by_dn :
            /\ dn \in DOMAIN user_by_dn'
            /\ IsPrefix(heap[user_by_dn[dn]].groups, heap'[user_by_dn'[dn]].groups)
       /\ pc' = "returned" =>
            \A dn \in DOMAIN user_by_dn : user_by_dn[dn] \in Range(result')]_vars

\* The first call on a connector raised a fatal error after it had inserted a
\* record and tagged it with a group.
C23_Witness ==
    /\ pc = "raised" /\ first_call
    /\ error \in {MultipleGroupsError, EncodingError}
    /\ \E dn \in DOMAIN user_by_dn :
          /\ heap[user_by_dn[dn]].groups /= <<>>
          /\ \E d \in delivered : d[2] = dn

\* The offsets of the pages of n entries by pages of `size' entries.
PageOffsets(n, size) ==
    [i \in 1..(IF n = 0 THEN 1 ELSE ((n - 1) \div size) + 1) |-> (i - 1) * size]

\* C24, as claimed: when make_call returns, it has requested every page of the
\* backend result once, in order and none after the last, and the returned
\* list holds every entry of the backend result once.
C24_EveryPageOnce ==
    mpc = "returned" =>
        /\ fetched = PageOffsets(backend, int(page_size))
        /\ user_list = [i \in 1..backend |->
                           IF request_type = "course_classlist"
                           THEN RosterEntry(i).sourcedId ELSE RosterEntry(i)]
====
